---- MODULE Spec2Model ----
(***************************************************************************)
(* matrix-firefly-bot (src/main.rs): the command grammar (Cmd::parse,      *)
(* AddArgs::parse), the transaction synthesis (Transaction::withdrawal)    *)
(* and the per-event handler (MatrixFireflyBot::on_room_message) driven by *)
(* the sync loop of MatrixFireflyBot::start.                               *)
(*                                                                         *)
(* Rust strings are TLA+ strings; a character is a string of length one.   *)
(***************************************************************************)
EXTENDS Integers, Sequences, FiniteSets, TLC

(***************************************************************************)
(* Program constants.                                                      *)
(***************************************************************************)
FIREFLY_GENERAL_EXPENSE == "General expense"

ADD_CMD == "!add"
CATEGORIES_CMD == "!categories"
HELP_CMD == "!help"
PING_CMD == "!ping"

ADD_USAGE == "!add <Category>: <Amount> [Note] [#Tag...]"
INVALID_ARGS == "Invalid arguments."

\* The two reaction keys of on_room_message, named by their code points
\* (U+2705 WHITE HEAVY CHECK MARK, U+274C CROSS MARK).
REACTION_OK == "U+2705"
REACTION_FAIL == "U+274C"

\* StatusCode::OK
StatusOK == 200

(***************************************************************************)
(* str primitives of the Rust standard library used by the parser.         *)
(***************************************************************************)
Ch(s, i) == SubSeq(s, i, i)

From(s, i) == SubSeq(s, i, Len(s))

\* char::is_whitespace, restricted to the white space the model's inputs use
IsWhitespace(c) == c \in {" ", "\t", "\n"}

starts_with(s, c) == Len(s) > 0 /\ Ch(s, 1) = c

is_empty(s) == Len(s) = 0

\* str::find(c): 1-based position of the first c in s, 0 when there is none
RECURSIVE FindFrom(_, _, _)
FindFrom(s, c, i) ==
    IF i > Len(s) THEN 0
    ELSE IF Ch(s, i) = c THEN i
    ELSE FindFrom(s, c, i + 1)

find(s, c) == FindFrom(s, c, 1)

RECURSIVE trim_start(_)
trim_start(s) ==
    IF Len(s) > 0 /\ IsWhitespace(Ch(s, 1)) THEN trim_start(From(s, 2)) ELSE s

RECURSIVE trim_end(_)
trim_end(s) ==
    IF Len(s) > 0 /\ IsWhitespace(Ch(s, Len(s)))
    THEN trim_end(SubSeq(s, 1, Len(s) - 1))
    ELSE s

trim(s) == trim_end(trim_start(s))

\* str::split_once(c): None, or Some((before the first c, after it))
split_once(s, c) ==
    LET p == find(s, c)
    IN  IF p = 0
        THEN [some |-> FALSE, left |-> "", right |-> ""]
        ELSE [some |-> TRUE, left |-> SubSeq(s, 1, p - 1), right |-> From(s, p + 1)]

\* str::split(c): every segment between separators, the empty ones included
RECURSIVE split(_, _)
split(s, c) ==
    LET p == find(s, c)
    IN  IF p = 0 THEN <<s>>
        ELSE <<SubSeq(s, 1, p - 1)>> \o split(From(s, p + 1), c)

\* [String]::join(sep)
RECURSIVE join(_, _)
join(parts, sep) ==
    IF Len(parts) = 0 THEN ""
    ELSE IF Len(parts) = 1 THEN parts[1]
    ELSE parts[1] \o sep \o join(Tail(parts), sep)

\* Iterator::map(|part| part.trim().to_string())
map_trim(parts) == [i \in 1..Len(parts) |-> trim(parts[i])]

\* Iterator::filter(|part| !part.is_empty())
RECURSIVE filter_non_empty(_)
filter_non_empty(parts) ==
    IF Len(parts) = 0 THEN <<>>
    ELSE IF is_empty(Head(parts)) THEN filter_non_empty(Tail(parts))
    ELSE <<Head(parts)>> \o filter_non_empty(Tail(parts))

(***************************************************************************)
(* f64::from_str.  The grammar is the one of core::num::dec2flt:           *)
(*   Float  ::= Sign? ( 'inf' | 'infinity' | 'nan' | Number )              *)
(*   Number ::= ( Digit+ | Digit+ '.' Digit* | Digit* '.' Digit+ ) Exp?    *)
(*   Exp    ::= 'e' Sign? Digit+            (letters in either case)       *)
(* A finite value is kept as its decimal normal form: the significant      *)
(* digits sig (no leading or trailing zero) and the decimal exponent exp10 *)
(* of the first of them, so that "100", "100.0" and "1e2" are one value.   *)
(***************************************************************************)
Digits == {"0", "1", "2", "3", "4", "5", "6", "7", "8", "9"}

DigitVal(c) ==
    CASE c = "0" -> 0 [] c = "1" -> 1 [] c = "2" -> 2 [] c = "3" -> 3
      [] c = "4" -> 4 [] c = "5" -> 5 [] c = "6" -> 6 [] c = "7" -> 7
      [] c = "8" -> 8 [] c = "9" -> 9

\* u8::to_ascii_lowercase on the letters of 'inf', 'infinity', 'nan', 'e'
LowerCh(c) ==
    CASE c = "I" -> "i" [] c = "N" -> "n" [] c = "F" -> "f" [] c = "T" -> "t"
      [] c = "Y" -> "y" [] c = "A" -> "a" [] c = "E" -> "e" [] OTHER -> c

RECURSIVE Lower(_)
Lower(s) == IF Len(s) = 0 THEN "" ELSE LowerCh(Ch(s, 1)) \o Lower(From(s, 2))

\* length of the longest prefix of s made of digits
RECURSIVE DigitRun(_)
DigitRun(s) ==
    IF Len(s) > 0 /\ Ch(s, 1) \in Digits THEN 1 + DigitRun(From(s, 2)) ELSE 0

RECURSIVE DecValue(_)
DecValue(ds) ==
    IF Len(ds) = 0 THEN 0
    ELSE 10 * DecValue(SubSeq(ds, 1, Len(ds) - 1)) + DigitVal(Ch(ds, Len(ds)))

RECURSIVE StripLeadingZeros(_)
StripLeadingZeros(ds) ==
    IF Len(ds) > 0 /\ Ch(ds, 1) = "0" THEN StripLeadingZeros(From(ds, 2)) ELSE ds

RECURSIVE StripTrailingZeros(_)
StripTrailingZeros(ds) ==
    IF Len(ds) > 0 /\ Ch(ds, Len(ds)) = "0"
    THEN StripTrailingZeros(SubSeq(ds, 1, Len(ds) - 1))
    ELSE ds

\* f64::MAX is 1.7976931348623157e308; a decimal at or above the midpoint
\* between f64::MAX and 2^1024 (1.797693134862315808e308) rounds to infinity.
F64_MAX_10_EXP == 308
F64OverflowDigits == "1797693134862315808"

\* sig >= F64OverflowDigits as decimal fractions 0.d1d2d3...
RECURSIVE DigitsGeq(_, _)
DigitsGeq(sig, bound) ==
    IF Len(bound) = 0 THEN TRUE
    ELSE IF Len(sig) = 0 THEN FALSE
    ELSE IF DigitVal(Ch(sig, 1)) > DigitVal(Ch(bound, 1)) THEN TRUE
    ELSE IF DigitVal(Ch(sig, 1)) < DigitVal(Ch(bound, 1)) THEN FALSE
    ELSE DigitsGeq(From(sig, 2), From(bound, 2))

F64Err == [ok |-> FALSE, class |-> "err", neg |-> FALSE, sig |-> "", exp10 |-> 0]

F64Zero(neg) == [ok |-> TRUE, class |-> "finite", neg |-> neg, sig |-> "", exp10 |-> 0]

F64Inf(neg) == [ok |-> TRUE, class |-> "inf", neg |-> neg, sig |-> "", exp10 |-> 0]

F64NaN(neg) == [ok |-> TRUE, class |-> "nan", neg |-> neg, sig |-> "", exp10 |-> 0]

TakeDigits(s) == SubSeq(s, 1, DigitRun(s))

DropDigits(s) == From(s, DigitRun(s) + 1)

\* the rounding to the nearest f64 of the decimal 0.sig * 10^(exp10 + 1)
F64Classify(neg, sig, exp10) ==
    IF Len(sig) = 0 THEN F64Zero(neg)
    ELSE IF exp10 > F64_MAX_10_EXP
            \/ (exp10 = F64_MAX_10_EXP /\ DigitsGeq(sig, F64OverflowDigits))
         THEN F64Inf(neg)
    \* below the smallest subnormal the value rounds to zero
    ELSE IF exp10 < -324 THEN F64Zero(neg)
    ELSE [ok |-> TRUE, class |-> "finite", neg |-> neg, sig |-> sig, exp10 |-> exp10]

\* lead: the digits with the leading zeros gone; exp10 is the decimal
\* exponent of the first digit left
F64Normal(neg, intLen, allLen, lead, expVal) ==
    F64Classify(neg, StripTrailingZeros(lead), intLen - (allLen - Len(lead)) - 1 + expVal)

F64Round(neg, int, frac, expVal) ==
    F64Normal(neg, Len(int), Len(int) + Len(frac), StripLeadingZeros(int \o frac), expVal)

\* Exp: the digits after 'e' and the sign
F64ExpDigits(neg, int, frac, e, sgn) ==
    IF Len(e) = 0 \/ DigitRun(e) # Len(e) THEN F64Err
    ELSE F64Round(neg, int, frac, sgn * DecValue(e))

F64ExpSign(neg, int, frac, e) ==
    IF starts_with(e, "-") THEN F64ExpDigits(neg, int, frac, From(e, 2), -1)
    ELSE IF starts_with(e, "+") THEN F64ExpDigits(neg, int, frac, From(e, 2), 1)
    ELSE F64ExpDigits(neg, int, frac, e, 1)

\* Number, once the integer and fraction digits are read; rest is what follows
F64AfterFrac(neg, int, frac, rest) ==
    IF Len(int) + Len(frac) = 0 THEN F64Err
    ELSE IF Len(rest) = 0 THEN F64Round(neg, int, frac, 0)
    ELSE IF LowerCh(Ch(rest, 1)) = "e" THEN F64ExpSign(neg, int, frac, From(rest, 2))
    ELSE F64Err

F64AfterInt(neg, int, rest) ==
    IF starts_with(rest, ".")
    THEN F64AfterFrac(neg, int, TakeDigits(From(rest, 2)), DropDigits(From(rest, 2)))
    ELSE F64AfterFrac(neg, int, "", rest)

\* parse_number
F64Number(s, neg) == F64AfterInt(neg, TakeDigits(s), DropDigits(s))

\* parse_inf_nan
F64InfNan(s, neg) ==
    IF Lower(s) \in {"inf", "infinity"} THEN F64Inf(neg)
    ELSE IF Lower(s) = "nan" THEN F64NaN(neg)
    ELSE F64Err

F64Pick(num, s, neg) == IF num.ok THEN num ELSE F64InfNan(s, neg)

F64Unsigned(s, neg) == IF Len(s) = 0 THEN F64Err ELSE F64Pick(F64Number(s, neg), s, neg)

\* <f64 as FromStr>::from_str
f64_from_str(s) ==
    IF starts_with(s, "-") THEN F64Unsigned(From(s, 2), TRUE)
    ELSE IF starts_with(s, "+") THEN F64Unsigned(From(s, 2), FALSE)
    ELSE F64Unsigned(s, FALSE)

\* f64::is_finite
is_finite(x) == x.class = "finite"

(***************************************************************************)
(* AddArgs::parse and Cmd::parse.                                          *)
(***************************************************************************)
None == [some |-> FALSE, val |-> ""]

Some(s) == [some |-> TRUE, val |-> s]

AddErr(msg) ==
    [ok |-> FALSE, err |-> msg, category |-> "", amount |-> F64Err,
     note |-> None, tags |-> <<>>]

InvalidArgsText == INVALID_ARGS \o " Usage: " \o ADD_USAGE

InvalidAmountText(amount_str) == "Invalid amount: " \o amount_str

\* |(amount, rest)| { let trimmed = rest.trim(); (amount, if trimmed.is_empty()
\* { None } else { Some(trimmed) }) }
TailOption(trimmed) == IF is_empty(trimmed) THEN None ELSE Some(trimmed)

\* the (amount, rest) pair: the amount token and the free-text tail of the
\* text after the ':'; without a space the token is that text, untrimmed
AmountAndRestOf(afterColon, sp) ==
    IF sp.some
    THEN [amount |-> sp.left, rest |-> TailOption(trim(sp.right))]
    ELSE [amount |-> afterColon, rest |-> None]

AmountAndRest(afterColon) ==
    AmountAndRestOf(afterColon, split_once(trim(afterColon), " "))

has_note(rest) == IF rest.some THEN ~starts_with(rest.val, "#") ELSE FALSE

\* mutant: the segments kept without the filter on empty ones
text_parts_unfiltered(rest) ==
    IF rest.some
    THEN [some |-> TRUE, val |-> map_trim(split(rest.val, "#"))]
    ELSE [some |-> FALSE, val |-> <<>>]

text_parts(rest) ==
    IF rest.some
    THEN [some |-> TRUE, val |-> filter_non_empty(map_trim(split(rest.val, "#")))]
    ELSE [some |-> FALSE, val |-> <<>>]

\* text_parts.as_ref().and_then(|parts| if has_note { parts.get(0).cloned() }
\* else { None })
NoteOf(hasNote, parts) ==
    IF parts.some /\ hasNote /\ Len(parts.val) >= 1 THEN Some(parts.val[1]) ELSE None

\* if has_note { Vec::from(&text_parts.unwrap()[1..]) } else
\* { text_parts.unwrap_or_default() }; has_note implies a non-empty Some
TagsOf(hasNote, parts) == IF hasNote THEN Tail(parts.val) ELSE parts.val

StripDollar(amount_str) ==
    IF starts_with(amount_str, "$") THEN From(amount_str, 2) ELSE amount_str

AmountStr(amount) == StripDollar(trim(amount))

AddArgsParsed(category, amount_str, amount, note, tags) ==
    IF is_empty(category) \/ is_empty(amount_str) THEN AddErr(InvalidArgsText)
    ELSE IF ~amount.ok THEN AddErr(InvalidAmountText(amount_str))
    ELSE [ok |-> TRUE, err |-> "", category |-> category, amount |-> amount,
          note |-> note, tags |-> tags]

AddArgsAmount(category, amount_str, note, tags) ==
    AddArgsParsed(category, amount_str, f64_from_str(amount_str), note, tags)

AddArgsTail(category, amount, hasNote, parts) ==
    AddArgsAmount(trim(category), AmountStr(amount), NoteOf(hasNote, parts),
                  TagsOf(hasNote, parts))

AddArgsRest(category, ar) ==
    AddArgsTail(category, ar.amount, has_note(ar.rest), text_parts(ar.rest))

AddArgsSplit(cr) ==
    IF cr.some THEN AddArgsRest(cr.left, AmountAndRest(cr.right))
    ELSE AddErr(InvalidArgsText)

AddArgs_parse(args) == AddArgsSplit(split_once(args, ":"))

\* mutant: the error text with the verb first
UnknownCommandTextVerbFirst(cmd_str) == cmd_str \o ": unknown command"

UnknownCommandText(cmd_str) == "Unknown command: " \o cmd_str

\* &input[..cmd_end] and &input[cmd_end + 1..], p the position of the first
\* space (0 when there is none)
CmdStr(input, p) == IF p = 0 THEN input ELSE SubSeq(input, 1, p - 1)

CmdArgs(input, p) == IF p = 0 THEN "" ELSE From(input, p + 1)

CmdOk(cmd) == [ok |-> TRUE, err |-> "", cmd |-> cmd, add |-> AddErr("")]

\* no Cmd::parse result: the handler has not got to the parser
Unparsed == [ok |-> FALSE, err |-> "", cmd |-> "Unparsed", add |-> AddErr("")]

CmdErr(msg) == [ok |-> FALSE, err |-> msg, cmd |-> "None", add |-> AddErr("")]

\* Ok(Cmd::Add(AddArgs::parse(cmd_args)?))
CmdAdd(a) ==
    IF a.ok THEN [ok |-> TRUE, err |-> "", cmd |-> "Add", add |-> a] ELSE CmdErr(a.err)

CmdMatch(cmd_str, cmd_args) ==
    CASE cmd_str = HELP_CMD -> CmdOk("Help")
      [] cmd_str = PING_CMD -> CmdOk("Ping")
      [] cmd_str = CATEGORIES_CMD -> CmdOk("Categories")
      [] cmd_str = ADD_CMD -> CmdAdd(AddArgs_parse(cmd_args))
      [] OTHER -> CmdErr(UnknownCommandText(cmd_str))

CmdSplit(input, p) == CmdMatch(CmdStr(input, p), CmdArgs(input, p))

Cmd_parse(input) == CmdSplit(input, find(input, " "))

\* tests::test_parse_add
Expect(args, category, sig, exp10, note, tags) ==
    LET a == AddArgs_parse(args)
    IN  /\ a.ok
        /\ a.category = category
        /\ a.amount.class = "finite" /\ a.amount.sig = sig /\ a.amount.exp10 = exp10
        /\ a.note = note
        /\ a.tags = tags

test_parse_add ==
    /\ Expect("Test: 1.23", "Test", "123", 0, None, <<>>)
    /\ Expect("multi word cat: $100", "multi word cat", "1", 2, None, <<>>)
    /\ Expect("cat : 0.25 this is a note", "cat", "25", -1, Some("this is a note"), <<>>)
    /\ Expect("test: 1.25 #tag", "test", "125", 0, None, <<"tag">>)
    /\ Expect("test: 1 this is a note #one #two #three", "test", "1", 0,
              Some("this is a note"), <<"one", "two", "three">>)
    /\ Expect("   weird spacing   :   $1.01    this one has  extra   spacing    #one    #  two  ",
              "weird spacing", "101", 0, Some("this one has  extra   spacing"),
              <<"one", "two">>)

(***************************************************************************)
(* Static configuration (struct Config) and the inputs of the model.       *)
(***************************************************************************)
Config == [matrix_username |-> "firefly", firefly_source_account_id |-> 7]

\* number of events the room's users send
MaxEvents == 2

\* number of the bot's own messages that come back to the handler
MaxEchoes == 1

\* OriginalSyncRoomMessageEvent as the handler sees it: the state of the
\* room it arrived for, content.msgtype, the body, sender.localpart() and
\* origin_server_ts.to_system_time()
Event(room, msgtype, body, sender, ts) ==
    [room |-> room, msgtype |-> msgtype, body |-> body, sender |-> sender,
     ts |-> ts, echo |-> FALSE]

Ts(t) == [some |-> TRUE, val |-> t]

NoTs == [some |-> FALSE, val |-> 0]

UserBodies ==
    {"hello", "!ping", "!help", "!categories", "!bogus arg",
     "!add Food: 12.5 lunch #work", "!add Food: $3 #alice # #late",
     "!add Food 3", "!add Food: x1"}

UserEvents ==
    {Event("Joined", "Text", b, "alice", Ts(1)) : b \in UserBodies}
        \cup {Event("Joined", "Text", "!add : 1", "bob", Ts(2)),
              Event("Joined", "Image", "!ping", "bob", Ts(2)),
              Event("Left", "Text", "!ping", "bob", Ts(2)),
              Event("Joined", "Text", "!ping", "bob", NoTs)}

\* what reqwest hands back for POST api/v1/transactions
CreateResponses ==
    {[transport |-> "ok", status |-> 200, body |-> "created"],
     [transport |-> "ok", status |-> 204, body |-> ""],
     [transport |-> "ok", status |-> 422, body |-> "The given data was invalid."],
     [transport |-> "error", status |-> 0, body |-> "connection refused"]}

\* what reqwest hands back for GET api/v1/categories: a transport error, a
\* body that is not a ListCategories document, or the decoded data
ListResponses ==
    {[transport |-> "error", decoded |-> FALSE, data |-> <<>>, body |-> "connection refused"],
     [transport |-> "ok", decoded |-> FALSE, data |-> <<>>, body |-> "Unauthenticated."],
     [transport |-> "ok", decoded |-> TRUE, data |-> <<>>, body |-> ""],
     [transport |-> "ok", decoded |-> TRUE, data |-> <<"Food">>, body |-> ""],
     [transport |-> "ok", decoded |-> TRUE, data |-> <<"Rent", "!add Food">>, body |-> ""]}

NoResponse == [transport |-> "pending", status |-> 0, body |-> "", decoded |-> FALSE, data |-> <<>>]

(***************************************************************************)
(* Transaction::withdrawal and Transactions::new.                          *)
(***************************************************************************)
\* mutant: the sender pushed only when not among the tags already
withdrawal_dedup(category, amount, date, source_id, destination_name, person, notes, tags) ==
    [transaction_type |-> "withdrawal",
     date             |-> date,
     amount           |-> amount,
     description      |-> category \o " by " \o person,
     category_name    |-> category,
     source_id        |-> source_id,
     destination_name |-> destination_name,
     notes            |-> notes,
     tags             |-> IF \E i \in 1..Len(tags) : tags[i] = person
                          THEN tags ELSE Append(tags, person)]

withdrawal(category, amount, date, source_id, destination_name, person, notes, tags) ==
    [transaction_type |-> "withdrawal",
     date             |-> date,
     amount           |-> amount,
     description      |-> category \o " by " \o person,
     category_name    |-> category,
     source_id        |-> source_id,
     destination_name |-> destination_name,
     notes            |-> notes,
     tags             |-> Append(tags, person)]

Transactions_new(transaction) == [transactions |-> <<transaction>>]

NoTransactions == [transactions |-> <<>>]

\* the request body add_expense builds
AddExpenseBody(add, username, timestamp) ==
    Transactions_new(withdrawal(add.category, add.amount, timestamp,
                                Config.firefly_source_account_id,
                                FIREFLY_GENERAL_EXPENSE, username,
                                add.note, add.tags))

\* mutant: add_expense taking every 2xx status for success
CreateSucceededOn2xx(resp) ==
    resp.transport = "ok" /\ resp.status >= 200 /\ resp.status < 300

\* add_expense: Ok(()) exactly when the response arrived with StatusCode::OK
CreateSucceeded(resp) == resp.transport = "ok" /\ resp.status = StatusOK

AddExpenseError(resp) ==
    IF resp.transport = "ok"
    THEN [msg |-> "Failed to add transaction: ", status |-> resp.status, detail |-> resp.body]
    ELSE [msg |-> "Failed to execute HTTP request: ", status |-> 0, detail |-> resp.body]

\* list_categories: Err when send() or json() fails, else the names in order
ListSucceeded(resp) == resp.transport = "ok" /\ resp.decoded

CategoryNames(resp) == resp.data

(***************************************************************************)
(* The texts on_room_message posts.                                        *)
(***************************************************************************)
PongText == "pong"

HelpText ==
    "Available commands:\n - " \o ADD_USAGE \o "\n - " \o CATEGORIES_CMD
        \o "\n - " \o HELP_CMD \o "\n - " \o PING_CMD

\* mutant: the list separator pushed without the is_empty check
CategoriesTextUnchecked(categories) ==
    "Categories:" \o "\n - " \o join(categories, "\n - ")

CategoriesText(categories) ==
    "Categories:"
        \o (IF Len(categories) # 0 THEN "\n - " \o join(categories, "\n - ") ELSE "")

ListFailedText == "Failed to list categories"

\* mutant: a fixed sentence in place of the parser's error text
ParseErrorTextFixed(e) == "Failed to parse command"

\* the text posted for an Err of Cmd::parse: e.to_string()
ParseErrorText(e) == e

\* RoomMessageEventContent::text_plain / ReactionEventContent::new(Relation)
TextOp(id, content, sent) ==
    [for |-> id, kind |-> "text", body |-> content, relates_to |-> 0,
     sent |-> sent, echoed |-> FALSE]

ReactionOp(id, reaction, event_id, sent) ==
    [for |-> id, kind |-> "reaction", body |-> reaction, relates_to |-> event_id,
     sent |-> sent, echoed |-> FALSE]

(***************************************************************************)
(* State.                                                                  *)
(***************************************************************************)
VARIABLES
    events,     \* every room event synced so far, in receipt order; its
                \* position is its event id
    inbox,      \* ids the sync loop has not yet handed to the handler
    pc,         \* where the handler future stands: idle, await_list, await_add
    cur,        \* id of the event the handler is working on (0 when idle)
    started,    \* ids in the order their handling started
    parsed,     \* per event id: what Cmd::parse returned to the handler
    outcome,    \* per event id: none until the handler has returned
    chatOut,    \* room.send calls made, in order
    ledger,     \* HTTP requests made to the ledger, with their responses
    log,        \* records written with warn! and error!
    args,       \* AddArgs::parse on its own: the argument text,
    result,     \*   what parse returned for it,
    ppc         \*   and whether it has run

vars == <<events, inbox, pc, cur, started, parsed, outcome, chatOut, ledger, log,
          args, result, ppc>>

BotInit ==
    /\ events = <<>>
    /\ inbox = <<>>
    /\ pc = "idle"
    /\ cur = 0
    /\ started = <<>>
    /\ parsed = <<>>
    /\ outcome = <<>>
    /\ chatOut = <<>>
    /\ ledger = <<>>
    /\ log = <<>>

Init ==
    /\ BotInit
    /\ args = ""
    /\ result = AddErr("")
    /\ ppc = "unused"

(***************************************************************************)
(* The room: events reach the sync loop.                                   *)
(***************************************************************************)
UserCount == Cardinality({i \in 1..Len(events) : ~events[i].echo})

EchoCount == Cardinality({i \in 1..Len(events) : events[i].echo})

\* a user sends a message (or another kind of content) to the room
Receive ==
    /\ UserCount < MaxEvents
    /\ \E ev \in UserEvents :
          /\ events' = Append(events, ev)
          /\ inbox' = Append(inbox, Len(events) + 1)
          /\ parsed' = Append(parsed, Unparsed)
          /\ outcome' = Append(outcome, "none")
    /\ UNCHANGED <<pc, cur, started, chatOut, ledger, log, args, result, ppc>>

\* a text message the bot has sent comes back in the room's timeline: the
\* handler is registered for every m.room.message event of the room,
\* whoever sent it
Echo ==
    /\ EchoCount < MaxEchoes
    /\ \E k \in 1..Len(chatOut) :
          /\ chatOut[k].kind = "text"
          /\ chatOut[k].sent
          /\ ~chatOut[k].echoed
          /\ chatOut' = [chatOut EXCEPT ![k].echoed = TRUE]
          /\ events' = Append(events,
                              [room |-> "Joined", msgtype |-> "Text",
                               body |-> chatOut[k].body,
                               sender |-> Config.matrix_username,
                               ts |-> Ts(3), echo |-> TRUE])
          /\ inbox' = Append(inbox, Len(events) + 1)
          /\ parsed' = Append(parsed, Unparsed)
          /\ outcome' = Append(outcome, "none")
    /\ UNCHANGED <<pc, cur, started, ledger, log, args, result, ppc>>

(***************************************************************************)
(* on_room_message, from the call by the sync loop to its first await on   *)
(* the ledger (or to its return when the command needs no ledger call).    *)
(***************************************************************************)
\* mutant: the filter stage without the check of the '!' prefix
IgnoredWithoutPrefixCheck(ev) ==
    \/ ev.room # "Joined"
    \/ ev.msgtype # "Text"

\* the early returns of the filter stage
Ignored(ev) ==
    \/ ev.room # "Joined"
    \/ ev.msgtype # "Text"
    \/ ~starts_with(ev.body, "!")

\* mutant: the events handed to the handler in any order
NextIndexesAnyOrder(queue) == 1..Len(queue)

\* the sync loop hands the timeline's events to the handler in order
NextIndexes(queue) == {1}

Remove(queue, i) == SubSeq(queue, 1, i - 1) \o SubSeq(queue, i + 1, Len(queue))

SendFailedLog(id) ==
    [level |-> "error", for |-> id, msg |-> "Failed to process message: ",
     status |-> 0, detail |-> "send failed"]

\* send_message(..).await? / send_reaction(..).await? and the return
Send(id, op, out, entries) ==
    /\ chatOut' = Append(chatOut, op)
    /\ outcome' = [outcome EXCEPT ![id] = out]
    /\ log' = log \o entries \o (IF op.sent THEN <<>> ELSE <<SendFailedLog(id)>>)

\* the reply of the arms that need no ledger call
DirectReply(cmd) ==
    IF ~cmd.ok THEN ParseErrorText(cmd.err)
    ELSE IF cmd.cmd = "Ping" THEN PongText
    ELSE HelpText

ParseWarning(id, ev, cmd) ==
    IF cmd.ok THEN <<>>
    ELSE <<[level |-> "warn", for |-> id, msg |-> "Failed to parse: ",
            status |-> 0, detail |-> cmd.err]>>

\* the route stage, cmd being what Cmd::parse returned
Route(id, ev, cmd) ==
    /\ parsed' = [parsed EXCEPT ![id] = cmd]
    /\ IF ~cmd.ok \/ cmd.cmd \in {"Ping", "Help"}
       THEN /\ \E sent \in BOOLEAN :
                  Send(id, TextOp(id, DirectReply(cmd), sent), "replied",
                       ParseWarning(id, ev, cmd))
            /\ UNCHANGED <<pc, cur, ledger>>
       ELSE IF cmd.cmd = "Categories"
       THEN /\ pc' = "await_list"
            /\ cur' = id
            /\ ledger' = Append(ledger,
                                [for |-> id, op |-> "list", request |-> NoTransactions,
                                 response |-> NoResponse])
            /\ UNCHANGED <<outcome, chatOut, log>>
       ELSE /\ pc' = "await_add"
            /\ cur' = id
            /\ ledger' = Append(ledger,
                                [for |-> id, op |-> "create",
                                 request |-> AddExpenseBody(cmd.add, ev.sender, ev.ts.val),
                                 response |-> NoResponse])
            /\ UNCHANGED <<outcome, chatOut, log>>

\* the filter stage and the timestamp, then parse and route
Handle(id, ev) ==
    IF Ignored(ev)
    THEN /\ outcome' = [outcome EXCEPT ![id] = "ignored"]
         /\ UNCHANGED <<pc, cur, parsed, chatOut, ledger, log>>
    ELSE IF ~ev.ts.some
    THEN /\ outcome' = [outcome EXCEPT ![id] = "error"]
         /\ log' = Append(log,
                          [level |-> "error", for |-> id,
                           msg |-> "Failed to process message: ", status |-> 0,
                           detail |-> "Failed to extract message timestamp"])
         /\ UNCHANGED <<pc, cur, parsed, chatOut, ledger>>
    ELSE Route(id, ev, Cmd_parse(ev.body))

Dispatch ==
    /\ pc = "idle"
    /\ Len(inbox) > 0
    /\ \E i \in NextIndexes(inbox) :
          /\ inbox' = Remove(inbox, i)
          /\ started' = Append(started, inbox[i])
          /\ Handle(inbox[i], events[inbox[i]])
    /\ UNCHANGED <<events, args, result, ppc>>

(***************************************************************************)
(* on_room_message, from the ledger's answer to the return.                *)
(***************************************************************************)
FullResponse(resp) ==
    [transport |-> resp.transport,
     status    |-> IF "status" \in DOMAIN resp THEN resp.status ELSE 0,
     body      |-> resp.body,
     decoded   |-> IF "decoded" \in DOMAIN resp THEN resp.decoded ELSE FALSE,
     data      |-> IF "data" \in DOMAIN resp THEN resp.data ELSE <<>>]

\* Cmd::Categories arm after list_categories().await
ListRespond ==
    /\ pc = "await_list"
    /\ \E resp \in ListResponses, sent \in BOOLEAN :
          /\ ledger' = [ledger EXCEPT ![Len(ledger)].response = FullResponse(resp)]
          /\ IF ListSucceeded(resp)
             THEN Send(cur, TextOp(cur, CategoriesText(CategoryNames(resp)), sent),
                       "replied", <<>>)
             ELSE Send(cur, TextOp(cur, ListFailedText, sent), "replied",
                       <<[level |-> "error", for |-> cur,
                          msg |-> "Failed to list categories: ",
                          status |-> 0, detail |-> resp.body]>>)
    /\ pc' = "idle"
    /\ cur' = 0
    /\ UNCHANGED <<events, inbox, started, parsed, args, result, ppc>>

\* Cmd::Add arm after add_expense(..).await
CreateRespond ==
    /\ pc = "await_add"
    /\ \E resp \in CreateResponses, sent \in BOOLEAN :
          /\ ledger' = [ledger EXCEPT ![Len(ledger)].response = FullResponse(resp)]
          /\ IF CreateSucceeded(resp)
             THEN Send(cur, ReactionOp(cur, REACTION_OK, cur, sent),
                       "reacted-success", <<>>)
             ELSE Send(cur, ReactionOp(cur, REACTION_FAIL, cur, sent),
                       "reacted-failure",
                       <<[level |-> "error", for |-> cur] @@ AddExpenseError(resp)>>)
    /\ pc' = "idle"
    /\ cur' = 0
    /\ UNCHANGED <<events, inbox, started, parsed, args, result, ppc>>

Next ==
    \/ Receive
    \/ Echo
    \/ Dispatch
    \/ ListRespond
    \/ CreateRespond

Spec == Init /\ [][Next]_vars

(***************************************************************************)
(* AddArgs::parse on its own, over argument texts put together from        *)
(* tokens.                                                                 *)
(***************************************************************************)
\* tokens of the amount and of the free-text tail
MaxAmountTokens == 3

MaxTailTokens == 6

RECURSIVE Words(_, _)
Words(tokens, n) ==
    IF n = 0 THEN {""}
    ELSE {""} \cup {t \o w : t \in tokens, w \in Words(tokens, n - 1)}

AmountTokens == {"1", ".", "e", "309", "inf", "NaN", "$", "-"}

CategoryPrefixes == {"c:", " a b\t: ", ":", " \t:", "c"}

TailSuffixes == {"", " ", " n #t"}

AmountInputs ==
    {p \o w \o t : p \in CategoryPrefixes, w \in Words(AmountTokens, MaxAmountTokens),
                   t \in TailSuffixes}

TailTokens == {"n", " ", "#", "\t"}

AmountPrefixes == {"c:1 ", "c: $2.5e1   ", "c:1"}

TailInputs == {p \o w : p \in AmountPrefixes, w \in Words(TailTokens, MaxTailTokens)}

AddInputs == AmountInputs \cup TailInputs

AddInit ==
    /\ BotInit
    /\ args \in AddInputs
    /\ result = AddErr("")
    /\ ppc = "ready"

ParseAdd ==
    /\ ppc = "ready"
    /\ result' = AddArgs_parse(args)
    /\ ppc' = "parsed"
    /\ UNCHANGED <<events, inbox, pc, cur, started, parsed, outcome, chatOut, ledger, log,
                   args>>

NextAdd == ParseAdd

SpecAdd == AddInit /\ [][NextAdd]_vars

(***************************************************************************)
(* Properties.                                                             *)
(***************************************************************************)
Ids == 1..Len(events)

Done(id) == outcome[id] # "none"

OpsFor(id) == {k \in 1..Len(chatOut) : chatOut[k].for = id}

CallsFor(id) == {k \in 1..Len(ledger) : ledger[k].for = id}

\* a plain-text message whose text starts with '!'
IsCommand(ev) == ev.msgtype = "Text" /\ starts_with(ev.body, "!")

\* the handler got as far as the parser for this event
Reached(ev) == IsCommand(ev) /\ ev.room = "Joined" /\ ev.ts.some

\* the handler parsed the event's text as command c
ParsedAs(id, c) == parsed[id].ok /\ parsed[id].cmd = c

\* the handler ran the parser on the event's text and it failed
ParseFailed(id) == parsed[id].cmd = "None"

TheOp(id) == chatOut[CHOOSE k \in OpsFor(id) : TRUE]

TheCall(id) == ledger[CHOOSE k \in CallsFor(id) : TRUE]

TypeOK ==
    /\ pc \in {"idle", "await_list", "await_add"}
    /\ (pc = "idle") = (cur = 0)
    /\ Len(outcome) = Len(events)
    /\ Len(parsed) = Len(events)
    /\ \A id \in Ids : parsed[id].cmd # "Unparsed" => Reached(events[id])

\* C1 (as stated): every handled event ends in one outcome; an event that is
\* not a plain-text message starting with '!' yields no chat operation and
\* no ledger call, and every plain-text message starting with '!' yields
\* exactly one chat operation.
C1_OneOutcomePerCommand ==
    \A id \in Ids :
        /\ Cardinality(OpsFor(id)) <= 1
        /\ Done(id) =>
              IF IsCommand(events[id])
              THEN Cardinality(OpsFor(id)) = 1
              ELSE OpsFor(id) = {} /\ CallsFor(id) = {}

\* C1 (amended): as C1, where the messages that yield exactly one chat
\* operation are the plain-text messages starting with '!' that arrive for
\* a joined room with a timestamp that converts to a system time; every
\* other event yields no chat operation and no ledger call; no event yields
\* more than one chat operation or more than one ledger call.
C1_OneOutcomePerReachedCommand ==
    \A id \in Ids :
        /\ Cardinality(OpsFor(id)) <= 1
        /\ Cardinality(CallsFor(id)) <= 1
        /\ outcome[id] \in {"none", "ignored", "error", "replied", "reacted-success",
                            "reacted-failure"}
        /\ Done(id) =>
              IF Reached(events[id])
              THEN /\ Cardinality(OpsFor(id)) = 1
                   /\ outcome[id] \in {"replied", "reacted-success", "reacted-failure"}
              ELSE /\ OpsFor(id) = {} /\ CallsFor(id) = {}
                   /\ outcome[id] = IF IsCommand(events[id]) /\ events[id].room = "Joined"
                                    THEN "error" ELSE "ignored"

C1_Witness ==
    \E a, b \in Ids :
        /\ Done(a) /\ Reached(events[a]) /\ Cardinality(OpsFor(a)) = 1
        /\ Done(b) /\ ~IsCommand(events[b]) /\ OpsFor(b) = {}

\* C2: a message parsed as an Add command yields one reaction on the
\* triggering event and nothing else: the success mark exactly when the
\* create call returned status 200, the failure mark for every other status
\* and for a transport failure; the failure detail is in the log.
C2_AddReaction ==
    \A id \in Ids :
        ParsedAs(id, "Add") =>
            /\ \A k \in OpsFor(id) : chatOut[k].kind = "reaction"
            /\ Done(id) =>
                  /\ Cardinality(OpsFor(id)) = 1
                  /\ Cardinality(CallsFor(id)) = 1
                  /\ TheOp(id).relates_to = id
                  /\ LET resp == TheCall(id).response
                         ok   == resp.transport = "ok" /\ resp.status = 200
                     IN  /\ TheOp(id).body = IF ok THEN REACTION_OK ELSE REACTION_FAIL
                         /\ ok <=> outcome[id] = "reacted-success"
                         /\ ~ok => \E i \in 1..Len(log) :
                                      /\ log[i].for = id
                                      /\ log[i].level = "error"
                                      /\ log[i].detail = resp.body
                                      /\ log[i].status = resp.status

C2_Witness ==
    \E id \in Ids :
        /\ ParsedAs(id, "Add") /\ Done(id)
        /\ TheCall(id).response.transport = "ok"
        /\ TheCall(id).response.status \notin {200, 422}
        /\ TheOp(id).body = REACTION_FAIL

\* C3: when the parser fails on a message starting with '!', the one chat
\* operation is a text reply carrying the parser's error text, and no ledger
\* call and no reaction is made for that message.
C3_ParseErrorReplied ==
    \A id \in Ids :
        ParseFailed(id) =>
            /\ CallsFor(id) = {}
            /\ \A k \in OpsFor(id) : chatOut[k].kind = "text"
            /\ Done(id) =>
                  /\ Cardinality(OpsFor(id)) = 1
                  /\ TheOp(id).body = parsed[id].err
                  /\ events[id].body = "!bogus arg" =>
                        TheOp(id).body = "Unknown command: !bogus"
                  /\ events[id].body = "!add Food: x1" =>
                        TheOp(id).body = "Invalid amount: x1"
                  /\ events[id].body \in {"!add Food 3", "!add : 1"} =>
                        TheOp(id).body =
                            "Invalid arguments. Usage: !add <Category>: <Amount> [Note] [#Tag...]"

C3_Witness ==
    \E id \in Ids :
        /\ ParseFailed(id) /\ Done(id)
        /\ events[id].body = "!add Food: x1"
        /\ Cardinality(OpsFor(id)) = 1

\* C4: the sync loop does not wait for the ledger call of the event being
\* handled before it takes up the next one: with a ledger request pending and
\* an event waiting, handing that event to the handler is possible.
C4_CanTakeUpWhilePending ==
    (pc \in {"await_list", "await_add"} /\ Len(inbox) > 0) => ENABLED Dispatch

RECURSIVE Bullets(_)
Bullets(names) ==
    IF names = <<>> THEN "" ELSE "\n - " \o Head(names) \o Bullets(Tail(names))

C6_CategoriesReply ==
    \A id \in Ids :
        ParsedAs(id, "Categories") /\ Done(id) =>
            /\ Cardinality(OpsFor(id)) = 1
            /\ Cardinality(CallsFor(id)) = 1
            /\ TheCall(id).op = "list"
            /\ TheOp(id).kind = "text"
            /\ LET resp == TheCall(id).response
               IN  TheOp(id).body =
                      IF resp.transport = "ok" /\ resp.decoded
                      THEN "Categories:" \o Bullets(resp.data)
                      ELSE "Failed to list categories"

C6_Witness ==
    \E a, b \in Ids :
        /\ ParsedAs(a, "Categories") /\ Done(a)
        /\ TheOp(a).body = "Categories:"
        /\ ParsedAs(b, "Categories") /\ Done(b)
        /\ TheCall(b).response.transport = "ok"
        /\ ~TheCall(b).response.decoded

\* C7: a returned AddRequest has a non-empty category without leading or
\* trailing white space and a finite amount; parsing fails when the trimmed
\* category is empty, the amount token without its '$' is empty, or the
\* amount token does not denote a finite number.
ClaimAfterColon(a) == From(a, find(a, ":") + 1)

ClaimToken(a) ==
    LET t == trim(ClaimAfterColon(a))
        p == find(t, " ")
        k == IF p = 0 THEN t ELSE SubSeq(t, 1, p - 1)
    IN  IF starts_with(k, "$") THEN From(k, 2) ELSE k

ClaimCategory(a) == trim(SubSeq(a, 1, find(a, ":") - 1))

C7_AddRequestInvariant ==
    ppc = "parsed" =>
        /\ result.ok =>
              /\ result.category # ""
              /\ ~IsWhitespace(Ch(result.category, 1))
              /\ ~IsWhitespace(Ch(result.category, Len(result.category)))
              /\ is_finite(result.amount)
        /\ (find(args, ":") # 0
              /\ \/ ClaimCategory(args) = ""
                 \/ ClaimToken(args) = ""
                 \/ ~f64_from_str(ClaimToken(args)).ok
                 \/ ~is_finite(f64_from_str(ClaimToken(args))))
           => ~result.ok

\* C8: for an input that parses, note and tags follow from the trimmed
\* free-text tail: none for an empty tail; no note and the non-empty trimmed
\* segments as tags for a tail starting with '#'; else the trimmed first
\* segment as note and the other non-empty trimmed segments as tags.
ClaimTail(a) ==
    LET t == trim(ClaimAfterColon(a))
        p == find(t, " ")
    IN  IF p = 0 THEN "" ELSE trim(From(t, p + 1))

NonEmpty(segments) == SelectSeq(segments, LAMBDA seg : seg # "")

C8_NoteAndTags ==
    (ppc = "parsed" /\ result.ok) =>
        LET tail == ClaimTail(args)
            segs == map_trim(split(tail, "#"))
        IN  /\ \A i \in 1..Len(result.tags) :
                  result.tags[i] # "" /\ trim(result.tags[i]) = result.tags[i]
            /\ IF tail = ""
               THEN ~result.note.some /\ result.tags = <<>>
               ELSE IF starts_with(tail, "#")
               THEN ~result.note.some /\ result.tags = NonEmpty(segs)
               ELSE /\ result.note.some
                    /\ result.note.val = segs[1]
                    /\ result.tags = NonEmpty(Tail(segs))

C8_Witness ==
    /\ ppc = "parsed" /\ result.ok
    /\ result.note.some
    /\ Len(result.tags) >= 2
    /\ Len(split(ClaimTail(args), "#")) > Len(result.tags) + 1

\* C9: the transaction of an Add command is a withdrawal from the configured
\* source account to "General expense", described "<category> by <sender>",
\* with the request's category and note, and the request's tags followed by
\* the sender, whether or not the sender is among them already.
C9_Withdrawal ==
    \A k \in 1..Len(ledger) :
        ledger[k].op = "create" =>
            LET ev  == events[ledger[k].for]
                req == parsed[ledger[k].for].add
                txs == ledger[k].request.transactions
            IN  /\ Len(txs) = 1
                /\ txs[1].transaction_type = "withdrawal"
                /\ txs[1].source_id = Config.firefly_source_account_id
                /\ txs[1].destination_name = "General expense"
                /\ txs[1].description = req.category \o " by " \o ev.sender
                /\ txs[1].category_name = req.category
                /\ txs[1].amount = req.amount
                /\ txs[1].notes = req.note
                /\ Len(txs[1].tags) = Len(req.tags) + 1
                /\ SubSeq(txs[1].tags, 1, Len(req.tags)) = req.tags
                /\ txs[1].tags[Len(txs[1].tags)] = ev.sender
                /\ ev.body = "!add Food: 12.5 lunch #work" =>
                      /\ txs[1].tags = <<"work", "alice">>
                      /\ txs[1].description = "Food by alice"
                      /\ txs[1].category_name = "Food"
                      /\ txs[1].notes = Some("lunch")

C9_Witness ==
    \E k \in 1..Len(ledger) :
        /\ ledger[k].op = "create"
        /\ ledger[k].request.transactions[1].tags = <<"alice", "late", "alice">>

\* C10: no text the bot posts starts with '!'; an event that is the bot's
\* own text coming back is ignored and yields no chat operation and no
\* ledger call; the bot never posts more than one operation per message
\* the users sent.
C10_NoSelfTrigger ==
    /\ \A k \in 1..Len(chatOut) :
          chatOut[k].kind = "text" =>
              chatOut[k].body # "" /\ ~starts_with(chatOut[k].body, "!")
    /\ \A id \in Ids :
          events[id].echo =>
              /\ outcome[id] \in {"none", "ignored"}
              /\ OpsFor(id) = {}
              /\ CallsFor(id) = {}
    /\ Len(chatOut) <= UserCount

C10_Witness ==
    \E id \in Ids :
        /\ events[id].echo
        /\ outcome[id] = "ignored"
        /\ events[id].body = "Unknown command: !bogus"
====
